---- MODULE Spec2Model ----
(***************************************************************************)
(* Model of claude-code-status-line.py: context-limit resolution, the      *)
(* reverse transcript scan, the progress bar, and the cached version check.*)
(* Strings are sequences of one-character strings, so that length, prefix, *)
(* substring, lower-casing and stripping are computed and not assumed.     *)
(***************************************************************************)
EXTENDS Integers, Sequences, FiniteSets, TLC

VARIABLES pc, model_id, ctx_window, context_limit,
          file_exists, lines, idx, context_used_token, last_prompt,
          raw_prompt, bar,
          now, cache, net_calls, hist

vars == <<pc, model_id, ctx_window, context_limit,
          file_exists, lines, idx, context_used_token, last_prompt,
          raw_prompt, bar,
          now, cache, net_calls, hist>>

scanVars == <<file_exists, lines, idx, context_used_token, last_prompt,
              raw_prompt, bar>>
limitVars == <<model_id, ctx_window, context_limit>>
versionVars == <<now, cache, net_calls, hist>>

-----------------------------------------------------------------------------
(* Bounds of the model *)

MaxLines == 3
MaxIdParts == 2
MaxPromptLen == 51
MaxTime == 7200
MaxNetCalls == 2

-----------------------------------------------------------------------------
(* Program constants *)

CONTEXT_OVERHEAD == 88300
DefaultLimit == 1000000
SmallLimit == 200000
bar_length == 20
PromptMax == 50
PromptKeep == 47
check_interval == 3600

-----------------------------------------------------------------------------
(* String helpers *)

Min(a, b) == IF a <= b THEN a ELSE b

\* str.lower() on the alphabet used for model ids
LowerChar(c) ==
  CASE c = "M" -> "m"
    [] c = "K" -> "k"
    [] c = "X" -> "x"
    [] OTHER -> c

Lower(s) == [i \in 1..Len(s) |-> LowerChar(s[i])]

\* `sub in s` for strings
Contains(s, sub) ==
  \E i \in 1..(Len(s) - Len(sub) + 1) : SubSeq(s, i, i + Len(sub) - 1) = sub

\* s * n for a one-character string s; Python yields "" when n <= 0
Rep(c, n) == [i \in 1..n |-> c]

Str1m == <<"1", "m">>
Str200k == <<"2", "0", "0", "k">>

-----------------------------------------------------------------------------
(* Context-limit resolution, lines 35-45 *)

ContextLimit_IgnoresElse(id, cw) ==
  LET initial == IF cw.present THEN cw.value ELSE DefaultLimit
  IN  IF Contains(Lower(id), Str1m) THEN DefaultLimit
      ELSE IF Contains(Lower(id), Str200k) THEN SmallLimit
      ELSE initial

ContextLimit(id, cw) ==
  LET initial == IF cw.present THEN cw.value ELSE DefaultLimit
  IN  IF Contains(Lower(id), Str1m) THEN DefaultLimit
      ELSE IF Contains(Lower(id), Str200k) THEN SmallLimit
      ELSE DefaultLimit

IdFragments ==
  { <<"1", "m">>, <<"1", "M">>, <<"2", "0", "0", "k">>, <<"2", "0", "0", "K">>,
    <<"1">>, <<"m">>, <<"2", "0">>, <<"0", "k">>, <<"x">>, <<"X", "-">> }

RECURSIVE IdsOf(_)
IdsOf(n) ==
  IF n = 0 THEN { <<>> }
  ELSE LET prev == IdsOf(n - 1)
       IN  prev \cup { a \o f : a \in prev, f \in IdFragments }

ModelIds == IdsOf(MaxIdParts)

NoWindow == [present |-> FALSE, value |-> 0]
CtxWindows == { NoWindow,
                [present |-> TRUE, value |-> 200000],
                [present |-> TRUE, value |-> 500000] }

ScanModelIds == { <<"x", "-", "2", "0", "0", "k">>, <<"o", "p", "u", "s">> }

-----------------------------------------------------------------------------
(* Transcript records.  One transcript line is blank, not parseable as JSON, *)
(* JSON that is not an object, or a JSON object with the keys the scan reads. *)

Alpha == <<"a", "b", "c", "d", "e">>

\* a string of n characters whose characters depend on the position
MkStr(n, off) == [i \in 1..n |-> Alpha[((i + off) % 5) + 1]]

Ellipsis == <<".", ".", ".">>
Space == <<" ">>
NoRecentPrompt ==
  <<"n", "o", " ", "r", "e", "c", "e", "n", "t", " ", "p", "r", "o", "m", "p", "t">>

CAbsent == [tag |-> "absent", s |-> <<>>, parts |-> <<>>]
CStr(s) == [tag |-> "str", s |-> s, parts |-> <<>>]
CList(parts) == [tag |-> "list", s |-> <<>>, parts |-> parts]

TextPart(t) == [pk |-> "dict", ptype |-> "text", hasText |-> TRUE, text |-> t]
ToolResultPart == [pk |-> "dict", ptype |-> "tool_result", hasText |-> FALSE, text |-> <<>>]
BareTextPart == [pk |-> "dict", ptype |-> "text", hasText |-> FALSE, text |-> <<>>]

Tok(n) == [present |-> TRUE, value |-> n]
NoTok == [present |-> FALSE, value |-> 0]
NoUsage == [input_tokens |-> NoTok, cache_creation_input_tokens |-> NoTok,
            cache_read_input_tokens |-> NoTok, output_tokens |-> NoTok]

Line(shape) ==
  [shape |-> shape, type |-> "none", hasMessage |-> FALSE, isMeta |-> FALSE,
   content |-> CAbsent, hasUsage |-> FALSE, usage |-> NoUsage]

UserRec(meta, c) ==
  [shape |-> "object", type |-> "user", hasMessage |-> TRUE, isMeta |-> meta,
   content |-> c, hasUsage |-> FALSE, usage |-> NoUsage]

AssistantRec(u) ==
  [shape |-> "object", type |-> "assistant", hasMessage |-> TRUE, isMeta |-> FALSE,
   content |-> CAbsent, hasUsage |-> TRUE, usage |-> u]

UsageFull ==
  [input_tokens |-> Tok(100), cache_creation_input_tokens |-> Tok(2000),
   cache_read_input_tokens |-> Tok(50000), output_tokens |-> Tok(300)]
UsageBig ==
  [input_tokens |-> Tok(150000), cache_creation_input_tokens |-> NoTok,
   cache_read_input_tokens |-> NoTok, output_tokens |-> Tok(7)]

RecordSet ==
  { Line("blank"), Line("malformed"), Line("nonobject"),
    [Line("object") EXCEPT !.type = "system"],
    [Line("object") EXCEPT !.type = "user"],
    [Line("object") EXCEPT !.type = "assistant", !.hasMessage = TRUE],
    UserRec(FALSE, CStr(MkStr(5, 0))),
    UserRec(FALSE, CStr(MkStr(PromptMax, 1))),
    UserRec(FALSE, CStr(MkStr(MaxPromptLen, 2))),
    UserRec(TRUE, CStr(MkStr(7, 3))),
    UserRec(FALSE, CList(<<ToolResultPart>>)),
    UserRec(FALSE, CList(<<TextPart(MkStr(30, 4)), BareTextPart, TextPart(MkStr(25, 0))>>)),
    AssistantRec(UsageFull), AssistantRec(UsageBig), AssistantRec(NoUsage) }

Transcripts == UNION { [1..n -> RecordSet] : n \in 0..MaxLines }

-----------------------------------------------------------------------------
(* Prompt extraction, lines 86-118 *)

\* lines 89-93: the texts of the dict parts whose type is "text"
RECURSIVE TextParts(_)
TextParts(parts) ==
  IF parts = <<>> THEN <<>>
  ELSE LET p == Head(parts)
           rest == TextParts(Tail(parts))
       IN  IF p.pk = "dict" /\ p.ptype = "text"
           THEN <<IF p.hasText THEN p.text ELSE <<>> >> \o rest
           ELSE rest

\* " ".join(text_parts)
RECURSIVE Join(_)
Join(ss) ==
  IF ss = <<>> THEN <<>>
  ELSE IF Len(ss) = 1 THEN ss[1]
  ELSE ss[1] \o Space \o Join(Tail(ss))

\* lines 105-114: first item with a non-empty "text", or first string item
RECURSIVE FirstText(_)
FirstText(parts) ==
  IF parts = <<>> THEN <<>>
  ELSE LET p == Head(parts)
       IN  IF p.pk = "dict" /\ p.hasText
           THEN IF p.text # <<>> THEN p.text ELSE FirstText(Tail(parts))
           ELSE IF p.pk = "str" THEN p.text
           ELSE FirstText(Tail(parts))

\* lines 86-114, entered with last_prompt empty
ExtractPrompt(c) ==
  LET structured ==
        IF c.tag = "list" /\ Len(c.parts) > 0
        THEN LET tp == TextParts(c.parts)
             IN  IF tp # <<>> THEN Join(tp) ELSE <<>>
        ELSE IF c.tag = "str" THEN c.s
        ELSE <<>>
  IN  IF structured # <<>> THEN structured
      ELSE IF c.tag = "str" THEN c.s
      ELSE IF c.tag = "list" THEN FirstText(c.parts)
      ELSE <<>>

\* lines 116-118
Truncate_KeepsMax(s) ==
  IF s # <<>> /\ Len(s) > PromptMax
  THEN SubSeq(s, 1, PromptMax) \o Ellipsis
  ELSE s

Truncate(s) ==
  IF s # <<>> /\ Len(s) > PromptMax
  THEN SubSeq(s, 1, PromptKeep) \o Ellipsis
  ELSE s

\* lines 79-84
IsPromptSource_NoMetaCheck(r, lp) ==
  r.type = "user" /\ r.hasMessage /\ lp = <<>>

IsPromptSource(r, lp) ==
  r.type = "user" /\ r.hasMessage /\ lp = <<>> /\ ~r.isMeta

\* lines 122-126
IsUsageSource_NoUsageKey(r) ==
  r.type = "assistant" /\ r.hasMessage

IsUsageSource(r) ==
  r.type = "assistant" /\ r.hasMessage /\ r.hasUsage

\* usage.get(key, 0)
Get(t) == IF t.present THEN t.value ELSE 0

\* lines 130-147
UsageTotal(u) ==
  Get(u.input_tokens) + Get(u.cache_creation_input_tokens)
    + Get(u.cache_read_input_tokens) + Get(u.output_tokens) + CONTEXT_OVERHEAD

\* obj.get on a JSON value that is not an object raises AttributeError,
\* which the handler for json.JSONDecodeError does not catch
Raises(r) == r.shape = "nonobject"

\* lines 166-168
FilledChar == "#"
EmptyChar == "-"
FilledLength(used, limit) == (bar_length * used) \div limit
MakeBarString(n) == Rep(FilledChar, n) \o Rep(EmptyChar, bar_length - n)

-----------------------------------------------------------------------------
(* The script, top to bottom *)

NoCache == [exists |-> FALSE, mtime |-> 0, content |-> <<>>]
NetFail(kind) == [kind |-> kind, tag |-> <<>>]
NoNet == NetFail("none")

NoHist ==
  [called |-> FALSE, checked |-> FALSE, pre_cache |-> NoCache, pre_now |-> 0,
   pre_net |-> 0, cur |-> <<>>, net |-> NoNet, wrote |-> FALSE,
   computed |-> <<>>, ret |-> <<>>,
   prev_wrote |-> FALSE, prev_ret |-> <<>>, prev_time |-> 0]

VersionIdle ==
  /\ now = 0
  /\ cache = NoCache
  /\ net_calls = 0
  /\ hist = NoHist

ScanIdle ==
  /\ file_exists = FALSE
  /\ lines = <<>>
  /\ idx = 0
  /\ context_used_token = 0
  /\ last_prompt = <<>>
  /\ raw_prompt = <<>>
  /\ bar = <<>>

\* lines 26-33 done, lines 62-63 initialised
Init ==
  /\ pc = "start"
  /\ model_id \in ScanModelIds
  /\ ctx_window = NoWindow
  /\ context_limit = 0
  /\ file_exists \in BOOLEAN
  /\ lines \in Transcripts
  /\ (~file_exists => lines = <<>>)
  /\ idx = 0
  /\ context_used_token = 0
  /\ last_prompt = <<>>
  /\ raw_prompt = <<>>
  /\ bar = <<>>
  /\ VersionIdle

\* lines 37-45
ResolveLimit ==
  /\ pc = "start"
  /\ context_limit' = ContextLimit(model_id, ctx_window)
  /\ pc' = "open"
  /\ UNCHANGED <<model_id, ctx_window, scanVars, versionVars>>

\* lines 65-67 and 159-161
OpenTranscript ==
  /\ pc = "open"
  /\ IF file_exists
     THEN /\ idx' = Len(lines)
          /\ pc' = "scan"
     ELSE /\ idx' = 0
          /\ pc' = "bar"
  /\ UNCHANGED <<limitVars, file_exists, lines, context_used_token,
                 last_prompt, raw_prompt, bar, versionVars>>

\* one iteration of the loop of lines 70-157, on line idx
ScanLine ==
  /\ pc = "scan"
  /\ idx >= 1
  /\ LET r == lines[idx]
     IN  IF r.shape = "blank" \/ r.shape = "malformed"
         THEN /\ pc' = "scan"
              /\ UNCHANGED <<context_used_token, last_prompt, raw_prompt>>
         ELSE IF Raises(r)
         THEN /\ pc' = "crashed"
              /\ UNCHANGED <<context_used_token, last_prompt, raw_prompt>>
         ELSE LET isPrompt == IsPromptSource(r, last_prompt)
                  raw == IF isPrompt THEN ExtractPrompt(r.content) ELSE raw_prompt
                  lp == IF isPrompt THEN Truncate(raw) ELSE last_prompt
                  used == IF IsUsageSource(r) THEN UsageTotal(r.usage)
                          ELSE context_used_token
              IN  /\ raw_prompt' = raw
                  /\ last_prompt' = lp
                  /\ context_used_token' = used
                  /\ pc' = IF used > 0 /\ lp # <<>> THEN "bar" ELSE "scan"
  /\ idx' = idx - 1
  /\ UNCHANGED <<limitVars, file_exists, lines, bar, versionVars>>

\* the loop of line 70 is exhausted
ScanEnd ==
  /\ pc = "scan"
  /\ idx = 0
  /\ pc' = "bar"
  /\ UNCHANGED <<limitVars, scanVars, versionVars>>

\* lines 163-168
MakeBar ==
  /\ pc = "bar"
  /\ bar' = MakeBarString(FilledLength(context_used_token, context_limit))
  /\ pc' = "render"
  /\ UNCHANGED <<limitVars, file_exists, lines, idx, context_used_token,
                 last_prompt, raw_prompt, versionVars>>

\* lines 283-290
Render ==
  /\ pc = "render"
  /\ last_prompt' = IF last_prompt = <<>> THEN NoRecentPrompt ELSE last_prompt
  /\ pc' = "done"
  /\ UNCHANGED <<limitVars, file_exists, lines, idx, context_used_token,
                 raw_prompt, bar, versionVars>>

Next ==
  \/ ResolveLimit
  \/ OpenTranscript
  \/ ScanLine
  \/ ScanEnd
  \/ MakeBar
  \/ Render

Spec == Init /\ [][Next]_vars

\* the limit resolution alone, over many model ids and context_window values
InitLimit ==
  /\ pc = "start"
  /\ model_id \in ModelIds
  /\ ctx_window \in CtxWindows
  /\ context_limit = 0
  /\ ScanIdle
  /\ VersionIdle

NextLimit == ResolveLimit

SpecLimit == InitLimit /\ [][NextLimit]_vars

-----------------------------------------------------------------------------
(* Version check, lines 186-254 *)

Current == <<"c", "u", "r", "r", "e", "n", "t">>
Outdated == <<"o", "u", "t", "d", "a", "t", "e", "d">>

Digits == <<"0", "1", "2", "3", "4", "5", "6", "7", "8", "9">>
Whitespace == {" ", "\n", "\t"}

\* str.lstrip("v"): removes every leading "v"
RECURSIVE LStripV(_)
LStripV(s) ==
  IF s # <<>> /\ Head(s) = "v" THEN LStripV(Tail(s)) ELSE s

\* str.strip()
RECURSIVE LStrip(_)
LStrip(s) ==
  IF s # <<>> /\ Head(s) \in Whitespace THEN LStrip(Tail(s)) ELSE s

RECURSIVE RStrip(_)
RStrip(s) ==
  IF s # <<>> /\ s[Len(s)] \in Whitespace THEN RStrip(SubSeq(s, 1, Len(s) - 1)) ELSE s

Strip(s) == RStrip(LStrip(s))

\* v.split(".")
RECURSIVE SplitDot(_)
SplitDot(s) ==
  IF \A i \in 1..Len(s) : s[i] # "." THEN <<s>>
  ELSE LET d == CHOOSE i \in 1..Len(s) :
                  s[i] = "." /\ \A j \in 1..(i - 1) : s[j] # "."
       IN  <<SubSeq(s, 1, d - 1)>> \o SplitDot(SubSeq(s, d + 1, Len(s)))

\* int(c) succeeds on a non-empty string of decimal digits
IsInt(c) == c # <<>> /\ \A i \in 1..Len(c) : \E d \in 1..10 : Digits[d] = c[i]

DigitVal(ch) == (CHOOSE d \in 1..10 : Digits[d] = ch) - 1

RECURSIVE IntVal(_)
IntVal(c) ==
  IF c = <<>> THEN 0
  ELSE 10 * IntVal(SubSeq(c, 1, Len(c) - 1)) + DigitVal(c[Len(c)])

\* line 204: tuple(map(int, v.split(".")[:3])), ValueError when int fails
version_to_tuple(v) ==
  LET parts == SplitDot(v)
      first == SubSeq(parts, 1, Min(3, Len(parts)))
  IN  IF \A i \in 1..Len(first) : IsInt(first[i])
      THEN [ok |-> TRUE, t |-> [i \in 1..Len(first) |-> IntVal(first[i])]]
      ELSE [ok |-> FALSE, t |-> <<>>]

\* line 210: a < b on tuples of integers
RECURSIVE TupleLess_OrEqual(_, _)
TupleLess_OrEqual(a, b) ==
  IF a = <<>> THEN TRUE
  ELSE IF b = <<>> THEN FALSE
  ELSE IF a[1] # b[1] THEN a[1] < b[1]
  ELSE TupleLess_OrEqual(Tail(a), Tail(b))

RECURSIVE TupleLess(_, _)
TupleLess(a, b) ==
  IF a = <<>> THEN b # <<>>
  ELSE IF b = <<>> THEN FALSE
  ELSE IF a[1] # b[1] THEN a[1] < b[1]
  ELSE TupleLess(Tail(a), Tail(b))

\* what the request of lines 190-196 can yield: an error or timeout, a body
\* that is not JSON, an object without tag_name, a null tag_name, a tag
NetTag(t) == [kind |-> "ok", tag |-> t]

CurVersions ==
  { <<"1", ".", "0", ".", "0">>,
    <<"v", "1", ".", "0", ".", "1">>,
    <<"1", ".", "1", "0", ".", "0">>,
    <<"1", ".", "9">>,
    <<"2", ".", "0", ".", "0">>,
    <<"1", ".", "b", ".", "0">>,
    <<"1", ".", "0", ".", "0", ".", "b">> }

Tags ==
  { <<"v", "1", ".", "0", ".", "1">>,
    <<"1", ".", "0", ".", "0">>,
    <<"v", "v", "2", ".", "0", ".", "0">>,
    <<"v">>,
    <<"1", ".", "9", ".", "0">>,
    <<"1", ".", "1", "0", ".", "0">>,
    <<"1", ".", "0", ".", "0", ".", "b">>,
    <<"b", "1", ".", "0">>,
    <<"1", ".", "0">>,
    <<"1", ".", ".", "0">> }

NetOutcomes ==
  { NetFail("error"), NetFail("badjson"), NetFail("notag"), NetFail("nulltag") }
    \cup { NetTag(t) : t \in Tags }

\* lines 186-224
check_claude_version(current_version, net) ==
  IF net.kind \in {"error", "badjson", "nulltag"} THEN Current
  ELSE LET latest_version == LStripV(net.tag)
       IN  IF latest_version = <<>> THEN Current
           ELSE LET current_tuple == version_to_tuple(LStripV(current_version))
                    latest_tuple == version_to_tuple(latest_version)
                IN  IF ~current_tuple.ok \/ ~latest_tuple.ok THEN Current
                    ELSE IF TupleLess(current_tuple.t, latest_tuple.t) THEN Outdated
                    ELSE Current

\* lines 234-238
IsFresh_Inverted(c, t) == c.exists /\ t - c.mtime > check_interval

IsFresh(c, t) == c.exists /\ t - c.mtime < check_interval

\* lines 240-241
ReadCache(c) == Strip(c.content)

\* lines 247-249
WriteCache_Literal(status, t) == [exists |-> TRUE, mtime |-> t, content |-> Current]

WriteCache(status, t) == [exists |-> TRUE, mtime |-> t, content |-> status]

\* one call of get_version_status, lines 227-254.  hist records the call:
\* the state it started from, its inputs and what it returned.  Creating the
\* directory or opening the cache for writing may fail (writable = FALSE);
\* the handler of line 253 then returns "current".
GetVersionStatus ==
  /\ IF IsFresh(cache, now)
     THEN /\ UNCHANGED <<cache, net_calls>>
          /\ hist' = [called |-> TRUE, checked |-> FALSE, pre_cache |-> cache,
                      pre_now |-> now, pre_net |-> net_calls, cur |-> <<>>,
                      net |-> NoNet, wrote |-> FALSE, computed |-> <<>>,
                      ret |-> ReadCache(cache),
                      prev_wrote |-> hist.wrote, prev_ret |-> hist.ret,
                      prev_time |-> hist.pre_now]
     ELSE /\ net_calls < MaxNetCalls
          /\ net_calls' = net_calls + 1
          /\ \E cur \in CurVersions, net \in NetOutcomes, writable \in BOOLEAN :
               LET status == check_claude_version(cur, net)
               IN  /\ cache' = IF writable THEN WriteCache(status, now) ELSE cache
                   /\ hist' = [called |-> TRUE, checked |-> TRUE, pre_cache |-> cache,
                               pre_now |-> now, pre_net |-> net_calls, cur |-> cur,
                               net |-> net, wrote |-> writable, computed |-> status,
                               ret |-> IF writable THEN status ELSE Current,
                               prev_wrote |-> hist.wrote, prev_ret |-> hist.ret,
                               prev_time |-> hist.pre_now]
  /\ UNCHANGED <<now, pc, limitVars, scanVars>>

\* time passes between two runs of the script
Tick ==
  /\ \E d \in {check_interval - 1, check_interval} :
       /\ now + d <= MaxTime
       /\ now' = now + d
  /\ UNCHANGED <<cache, net_calls, hist, pc, limitVars, scanVars>>

InitVersion ==
  /\ pc = "start"
  /\ model_id = <<>>
  /\ ctx_window = NoWindow
  /\ context_limit = 0
  /\ ScanIdle
  /\ now = 0
  /\ cache \in { NoCache, WriteCache(Current, 0), WriteCache(Outdated, 0) }
  /\ net_calls = 0
  /\ hist = NoHist

NextVersion ==
  \/ GetVersionStatus
  \/ Tick

SpecVersion == InitVersion /\ [][NextVersion]_vars

-----------------------------------------------------------------------------
(* Vocabulary of the properties, stated on the transcript itself *)

MaxOf(S) == CHOOSE m \in S : \A k \in S : k <= m

ScanFinished == pc \in {"bar", "render", "done"}

\* an assistant record that carries a usage payload
UsageRecord(r) ==
  r.shape = "object" /\ r.type = "assistant" /\ r.hasMessage /\ r.hasUsage

UsageIdx == { i \in 1..Len(lines) : UsageRecord(lines[i]) }

\* a record of kind "user" that is not flagged meta
NonMetaUser(r) == r.shape = "object" /\ r.type = "user" /\ ~r.isMeta

NonMetaUserIdx == { i \in 1..Len(lines) : NonMetaUser(lines[i]) }

\* a non-meta user record with a message from which a non-empty text is extracted
TextUser(r) ==
  NonMetaUser(r) /\ r.hasMessage /\ ExtractPrompt(r.content) # <<>>

TextUserIdx == { i \in 1..Len(lines) : TextUser(lines[i]) }

PromptOf(i) == Truncate(ExtractPrompt(lines[i].content))

FilledCount(b) == Cardinality({ i \in 1..Len(b) : b[i] = FilledChar })

Has1m(id) ==
  \E i \in 1..(Len(id) - 1) : id[i] = "1" /\ id[i + 1] \in {"m", "M"}

Has200k(id) ==
  \E i \in 1..(Len(id) - 3) :
    id[i] = "2" /\ id[i + 1] = "0" /\ id[i + 2] = "0" /\ id[i + 3] \in {"k", "K"}

-----------------------------------------------------------------------------
(* Properties of the transcript scan and the bar *)

\* C1: after the scan, used tokens come from the usage payload of the
\* assistant record closest to the end of the file among those that carry
\* one; an older usage record never overwrites it.
C1_NewestUsageWins ==
  (ScanFinished /\ UsageIdx # {}) =>
    context_used_token = UsageTotal(lines[MaxOf(UsageIdx)].usage)

\* C2 as claimed: when the transcript has no assistant record with a usage
\* payload, or does not exist, used tokens equal CONTEXT_OVERHEAD.
C2_OverheadWhenNoUsage ==
  (ScanFinished /\ UsageIdx = {}) => context_used_token = CONTEXT_OVERHEAD

\* C2 as amended: when the transcript has no assistant record with a usage
\* payload, or does not exist, used tokens are 0 at every point of the run;
\* the overhead is added only when a usage record is read.
C2_ZeroWhenNoUsage ==
  UsageIdx = {} => context_used_token = 0

C2_Witness ==
  pc = "done" /\ ~file_exists /\ UsageIdx = {} /\ context_used_token = 0

\* C3: the rendered bar has between 0 and 20 filled cells and is never
\* longer than 20 cells, also when used tokens exceed the limit.
C3_BarWithinWidth ==
  pc \in {"render", "done"} =>
    /\ FilledCount(bar) \in 0..20
    /\ Len(bar) - FilledCount(bar) >= 0
    /\ Len(bar) <= 20

\* C4: no line of any transcript makes the scan raise; every line is either
\* skipped or contributes defaults, so the run always goes on to render.
C4_ScanNeverRaises ==
  pc # "crashed"

\* C8: a captured prompt longer than 50 characters is reported as its first
\* 47 characters followed by "...", a prompt of at most 50 characters is
\* reported unchanged, and the reported prompt never exceeds 50 characters.
C8_PromptTruncation ==
  /\ Len(last_prompt) <= 50
  /\ raw_prompt # <<>> =>
       IF Len(raw_prompt) > 50
       THEN /\ Len(last_prompt) = 50
            /\ \A i \in 1..47 : last_prompt[i] = raw_prompt[i]
            /\ \A i \in 48..50 : last_prompt[i] = "."
       ELSE last_prompt = raw_prompt

C8_Witness ==
  pc = "done" /\ Len(raw_prompt) > 50 /\ Len(last_prompt) = 50

\* C9 as claimed: the prompt comes from the newest non-meta user record, and
\* is empty only if the transcript has no non-meta user record.
C9_NewestNonMetaUser ==
  pc \in {"bar", "render"} =>
    IF NonMetaUserIdx = {} THEN last_prompt = <<>>
    ELSE /\ last_prompt # <<>>
         /\ last_prompt = PromptOf(MaxOf(NonMetaUserIdx))

\* C9 as amended: the prompt comes from the newest non-meta user record that
\* has a message with a non-empty extractable text; a meta record never
\* supplies it, no older record supplies it when a newer such record exists,
\* and it is empty (reported as "no recent prompt") exactly when the
\* transcript has no such record.  During the scan the same holds of the
\* lines read so far.
C9_NewestTextUser ==
  LET scanned == { i \in TextUserIdx : i > idx }
  IN  /\ pc \in {"scan", "crashed"} =>
           last_prompt = IF scanned = {} THEN <<>> ELSE PromptOf(MaxOf(scanned))
      /\ pc \in {"bar", "render"} =>
           last_prompt = IF TextUserIdx = {} THEN <<>>
                         ELSE PromptOf(MaxOf(TextUserIdx))
      /\ pc = "done" =>
           last_prompt = IF TextUserIdx = {} THEN NoRecentPrompt
                         ELSE PromptOf(MaxOf(TextUserIdx))

C9_Witness ==
  /\ pc = "done"
  /\ \E i, j \in NonMetaUserIdx :
       /\ i < j
       /\ ~TextUser(lines[j])
       /\ TextUser(lines[i])
       /\ last_prompt = PromptOf(i)

-----------------------------------------------------------------------------
(* Properties of the limit resolution *)

-----------------------------------------------------------------------------
(* Properties of the version check *)

\* the call recorded in hist started with a cache file modified less than
\* 3600 seconds before
CallOnFreshCache ==
  hist.called /\ hist.pre_cache.exists /\ hist.pre_now - hist.pre_cache.mtime < 3600

\* the call recorded in hist started with no cache file or a stale one
CallOnStaleCache ==
  hist.called /\ (~hist.pre_cache.exists \/ hist.pre_now - hist.pre_cache.mtime >= 3600)

DotPos(s) == { i \in 1..Len(s) : s[i] = "." }
NthDot(s, k) == CHOOSE d \in DotPos(s) : Cardinality({ e \in DotPos(s) : e < d }) = k - 1
CompCount(s) == Cardinality(DotPos(s)) + 1
Comp(s, k) ==
  SubSeq(s, IF k = 1 THEN 1 ELSE NthDot(s, k - 1) + 1,
            IF k = CompCount(s) THEN Len(s) ELSE NthDot(s, k) - 1)

\* number of components compared: the first three, or fewer if there are fewer
Compared(s) == Min(3, CompCount(s))

Numeric(c) ==
  c # <<>> /\ \A i \in 1..Len(c) : c[i] \in {"0", "1", "2", "3", "4", "5", "6", "7", "8", "9"}

Parses(s) == \A k \in 1..Compared(s) : Numeric(Comp(s, k))

Triple(s) == [k \in 1..Compared(s) |-> IntVal(Comp(s, k))]

\* lexicographic order on tuples, a proper prefix being less
LexLess(a, b) ==
  \E k \in 1..Len(b) :
    /\ \A i \in 1..(k - 1) : i <= Len(a) /\ a[i] = b[i]
    /\ (k > Len(a) \/ a[k] < b[k])

\* the text without its leading "v"s
Unprefixed(s) ==
  LET n == Cardinality({ i \in 1..Len(s) : \A j \in 1..i : s[j] = "v" })
  IN  SubSeq(s, n + 1, Len(s))

ShouldBeOutdated(cur, net) ==
  /\ net.kind = "ok"
  /\ net.tag # <<>>
  /\ Parses(Unprefixed(cur))
  /\ Parses(Unprefixed(net.tag))
  /\ LexLess(Triple(Unprefixed(cur)), Triple(Unprefixed(net.tag)))

\* C7: check_claude_version returns "outdated" exactly when the request
\* succeeds with a non-empty tag_name, both versions parse after the leading
\* "v" is stripped, and the first three numeric components of the current
\* version are lexicographically less than those of the latest; every other
\* case, every failure of the network path included, gives "current".
C7_OutdatedExactlyWhenOlder ==
  hist.checked =>
    hist.computed = IF ShouldBeOutdated(hist.cur, hist.net) THEN Outdated ELSE Current

C7_Witness ==
  /\ hist.checked
  /\ hist.computed = Outdated
  /\ hist.cur[1] = "v"
  /\ Len(Triple(Unprefixed(hist.cur))) = 3

\* C10 as claimed: a call that finds no cache or a stale one returns the
\* status computed by check_claude_version and leaves it as the content of
\* the cache file, so that the next call within 3600 seconds returns it.
C10_ComputedStatusIsCached ==
  CallOnStaleCache =>
    /\ hist.ret = hist.computed
    /\ cache.exists
    /\ cache.content = hist.computed

\* C10 as amended: a call that finds no cache or a stale one attempts one
\* request; when the cache file can be written, the computed status is
\* written with the current time and returned, and a next call less than
\* 3600 seconds later returns the same status without a request; when the
\* cache file cannot be written, the call returns "current" and the cache is
\* left as it was.
C10_CachedWhenWritable ==
  /\ CallOnStaleCache =>
       /\ net_calls = hist.pre_net + 1
       /\ IF hist.wrote
          THEN /\ hist.ret = hist.computed
               /\ cache = [exists |-> TRUE, mtime |-> hist.pre_now,
                           content |-> hist.computed]
          ELSE /\ hist.ret = Current
               /\ cache = hist.pre_cache
  /\ (hist.called /\ hist.prev_wrote /\ hist.pre_now - hist.prev_time < 3600) =>
       /\ hist.ret = hist.prev_ret
       /\ net_calls = hist.pre_net

C10_Witness ==
  /\ hist.called
  /\ hist.prev_wrote
  /\ hist.pre_now - hist.prev_time = 3599
  /\ hist.prev_ret = Outdated
  /\ hist.ret = Outdated
  /\ hist.pre_cache.mtime > 0

====
